---- MODULE Spec2Model ----
(***************************************************************************)
(* Student directory service (src/app.py): five HTTP handlers over the     *)
(* table students(id PK, first_name, last_name, email UNIQUE, dob).        *)
(*                                                                         *)
(* Sync handlers run in the server's thread pool, so requests overlap.     *)
(* Every handler is split at its database statements: a statement is       *)
(* atomic in the store, the handler as a whole is not.  Spec serializes    *)
(* the requests (one is in flight at a time); ConcSpec interleaves them.   *)
(***************************************************************************)
EXTENDS Integers, Sequences, FiniteSets

\* Largest row id the model lets the store assign.
MaxId == 3

\* Requests that may be in flight together (worker threads).
Procs == {"r1", "r2"}

FirstNames == {"Ada", "Grace"}
LastNames == {"Lovelace"}
ValidEmails == {"ada@example.com", "grace@example.com"}
\* Rejected by EmailStr: no "@".
MalformedEmails == {"ada.example.com"}
Dobs == {"1815-12-10"}
\* dob: Optional[date] = None
NoDob == "None"
\* A required field absent from the request body.
Missing == "<missing>"

Ids == 1..MaxId

\* Request bodies a client can send to POST /students and PUT /students/{id}.
Payloads ==
    [first_name : FirstNames \cup {Missing},
     last_name  : LastNames,
     email      : ValidEmails \cup MalformedEmails,
     dob        : Dobs \cup {NoDob}]

\* The bodies the clients of overlapping requests send: what a record holds
\* besides its email plays no part in a race.
RacePayloads ==
    {pl \in Payloads : pl.first_name = "Ada" /\ pl.dob = NoDob}

\* The body of a request that carries none.
NoPayload ==
    [first_name |-> Missing, last_name |-> Missing, email |-> Missing, dob |-> NoDob]

\* Rows the table can hold.
Rows ==
    [id : Ids, first_name : FirstNames, last_name : LastNames,
     email : ValidEmails, dob : Dobs \cup {NoDob}]

VARIABLES
    students,   \* the rows of table students
    req,        \* per worker: the request it serves and where the handler stands
    session,    \* per worker: the state of the request's SessionLocal()
    serial,     \* TRUE: requests are issued one after the other
    pre,        \* history: the table when the request in flight arrived (serial runs)
    creates     \* history: successful creates since the empty table, -1 once
                \* an update or delete went through (serial runs)

vars == <<students, req, session, serial, pre, creates>>

----------------------------------------------------------------------------
(* Schemas and the table's constraints *)

\* Pydantic validation of the request body.
StudentCreate(payload) ==
    /\ payload.first_name # Missing
    /\ payload.last_name # Missing
    /\ payload.email \notin MalformedEmails
    /\ payload.email # Missing

\* The ORM object built from a validated payload, under the id the store gives.
StudentModel(id, payload) ==
    [id         |-> id,
     first_name |-> payload.first_name,
     last_name  |-> payload.last_name,
     email      |-> payload.email,
     dob        |-> payload.dob]

\* The fields of a row as a payload (what StudentRead shows besides the id).
FieldsOf(row) ==
    [first_name |-> row.first_name, last_name |-> row.last_name,
     email |-> row.email, dob |-> row.dob]

IdsOf(store) == {r.id : r \in store}
EmailsOf(store) == {r.email : r \in store}

\* Variant of DbGet: the primary key is not used to select the row.
DbGetAnyRow(store, id) ==
    IF store # {}
    THEN <<CHOOSE r \in store : \A x \in store : r.id <= x.id>>
    ELSE <<>>

\* db.get(StudentModel, id): the row as a sequence of length 0 or 1.
DbGet(store, id) ==
    IF id \in IdsOf(store)
    THEN <<CHOOSE r \in store : r.id = id>>
    ELSE <<>>

\* Variant of EmailExists: the existence check never finds a row.
EmailNeverExists(store, email) == FALSE

\* db.query(StudentModel).filter(StudentModel.email == email).first()
EmailExists(store, email) == \E r \in store : r.email = email

\* Variant of UniqueViolation: column email declared without unique=True.
UniqueNotEnforced(store, email, self) == FALSE

\* Column email is unique=True: a row other than `self` holds the email.
UniqueViolation(store, email, self) ==
    \E r \in store : r.email = email /\ r.id # self

\* INTEGER PRIMARY KEY without AUTOINCREMENT: one more than the largest rowid.
MaxRowId(store) ==
    IF store = {} THEN 0
    ELSE CHOOSE m \in IdsOf(store) : \A i \in IdsOf(store) : i <= m

\* Variant of NextRowId: the largest rowid is handed out again.
NextRowIdReused(store) ==
    IF store = {} THEN 1 ELSE MaxRowId(store)

NextRowId(store) == MaxRowId(store) + 1

\* Variant of QueryAll: .first() in place of .all().
QueryFirstOnly(store) ==
    IF store = {} THEN <<>>
    ELSE <<CHOOSE x \in store : \A y \in store : x.id <= y.id>>

\* db.query(StudentModel).all(): a table scan, in rowid order.
RECURSIVE QueryAll(_)
QueryAll(store) ==
    IF store = {} THEN <<>>
    ELSE LET r == CHOOSE x \in store : \A y \in store : x.id <= y.id
         IN  <<r>> \o QueryAll(store \ {r})

\* Variant of ApplyUpdate: student.email is not assigned.
ApplyUpdateKeepEmail(cur, loaded, payload) ==
    [id         |-> cur.id,
     first_name |-> payload.first_name,
     last_name  |-> payload.last_name,
     email      |-> cur.email,
     dob        |-> payload.dob]

\* The UPDATE the unit of work flushes: SET names only the attributes whose
\* new value differs from the loaded one; the other columns keep what the
\* table holds now.
ApplyUpdate(cur, loaded, payload) ==
    [id         |-> cur.id,
     first_name |-> IF payload.first_name # loaded.first_name
                    THEN payload.first_name ELSE cur.first_name,
     last_name  |-> IF payload.last_name # loaded.last_name
                    THEN payload.last_name ELSE cur.last_name,
     email      |-> IF payload.email # loaded.email
                    THEN payload.email ELSE cur.email,
     dob        |-> IF payload.dob # loaded.dob
                    THEN payload.dob ELSE cur.dob]

\* Variant of DeleteRow: the delete is never committed.
DeleteKeepsRow(store, id) == store

\* DELETE FROM students WHERE id = ?
DeleteRow(store, id) == {r \in store : r.id # id}

\* Variant of SessionAtExit: db.close() after the yield, without try/finally.
CloseOnSuccessOnly(status) == IF status >= 400 THEN "open" ELSE "closed"

\* get_db's finally clause: what becomes of the session when the request
\* leaves the handler with `status`.
SessionAtExit(status) == "closed"

----------------------------------------------------------------------------
(* Requests *)

Idle ==
    [pc |-> "idle", op |-> "none", id |-> 0, payload |-> NoPayload,
     status |-> 0, body |-> <<>>, loaded |-> <<>>]

\* Creates that have not run their INSERT yet.
PendingCreates ==
    Cardinality({q \in Procs : req[q].op = "create"
                               /\ req[q].pc \in {"create_query", "create_commit"}})

InitWith(s) ==
    /\ students = {}
    /\ req = [p \in Procs |-> Idle]
    /\ session = [p \in Procs |-> "none"]
    /\ serial = s
    /\ pre = {}
    /\ creates = 0

\* A request arrives at worker p: the dependency opens the session, the body
\* is validated, and the handler is entered or the request is refused (422).
Arrive(p, op, id, payload, hasBody) ==
    /\ req[p].pc = "idle"
    /\ serial => \A q \in Procs : req[q].pc = "idle"
    /\ session' = [session EXCEPT ![p] = "open"]
    /\ req' = [req EXCEPT ![p] =
                 IF hasBody /\ ~StudentCreate(payload)
                 THEN [Idle EXCEPT !.pc = "finally", !.op = op, !.id = id,
                                   !.payload = payload, !.status = 422]
                 ELSE [Idle EXCEPT !.pc = op \o "_" \o
                                          (IF op \in {"create"} THEN "query"
                                           ELSE IF op = "list" THEN "all"
                                           ELSE "get"),
                                   !.op = op, !.id = id, !.payload = payload]]
    /\ pre' = IF serial THEN students ELSE pre
    /\ UNCHANGED <<students, serial, creates>>

\* The handler of p leaves with `status` and `body` (a return or a raise).
Leave(p, status, body) ==
    req' = [req EXCEPT ![p].pc = "finally", ![p].status = status, ![p].body = body]

Goto(p, pc) == req' = [req EXCEPT ![p].pc = pc]

\* The request bodies of this run.
Bodies == IF serial THEN Payloads ELSE RacePayloads

\* POST /students
post_students(p) ==
    /\ MaxRowId(students) + PendingCreates < MaxId
    /\ \E payload \in Bodies : Arrive(p, "create", 0, payload, TRUE)

\* GET /students
get_students(p) == Arrive(p, "list", 0, NoPayload, FALSE)

\* GET /students/{student_id}
get_students_id(p) == \E id \in Ids : Arrive(p, "get", id, NoPayload, FALSE)

\* PUT /students/{student_id}
put_students_id(p) ==
    \E id \in Ids, payload \in Bodies : Arrive(p, "update", id, payload, TRUE)

\* DELETE /students/{student_id}
delete_students_id(p) == \E id \in Ids : Arrive(p, "delete", id, NoPayload, FALSE)

----------------------------------------------------------------------------
(* create_student *)

\* exists = db.query(...).first(); if exists: raise HTTPException(400)
create_student_query(p) ==
    /\ req[p].pc = "create_query"
    /\ IF EmailExists(students, req[p].payload.email)
       THEN Leave(p, 400, <<>>)
       ELSE Goto(p, "create_commit")
    /\ UNCHANGED <<students, session, serial, pre, creates>>

\* db.add(student); db.commit(): the INSERT, refused by the unique index
\* when a row with the email is there by now (IntegrityError, unhandled: 500).
create_student_commit(p) ==
    /\ req[p].pc = "create_commit"
    /\ IF UniqueViolation(students, req[p].payload.email, 0)
       THEN /\ Leave(p, 500, <<>>)
            /\ UNCHANGED <<students, creates>>
       ELSE LET row == StudentModel(NextRowId(students), req[p].payload)
            IN  /\ students' = students \cup {row}
                /\ req' = [req EXCEPT ![p].pc = "create_refresh", ![p].id = row.id]
                /\ creates' = IF serial /\ creates >= 0 THEN creates + 1 ELSE creates
    /\ UNCHANGED <<session, serial, pre>>

\* db.refresh(student); return student. The row is read back by its id; a row
\* deleted meanwhile makes refresh raise (InvalidRequestError, unhandled: 500).
create_student_refresh(p) ==
    /\ req[p].pc = "create_refresh"
    /\ LET row == DbGet(students, req[p].id)
       IN  IF row = <<>> THEN Leave(p, 500, <<>>) ELSE Leave(p, 201, row)
    /\ UNCHANGED <<students, session, serial, pre, creates>>

----------------------------------------------------------------------------
(* list_students, get_student *)

list_students(p) ==
    /\ req[p].pc = "list_all"
    /\ Leave(p, 200, QueryAll(students))
    /\ UNCHANGED <<students, session, serial, pre, creates>>

\* The response of get_student for `id` over `store`.
GetResult(store, id) ==
    LET row == DbGet(store, id)
    IN  IF row = <<>> THEN [status |-> 404, body |-> <<>>]
        ELSE [status |-> 200, body |-> row]

get_student(p) ==
    /\ req[p].pc = "get_get"
    /\ LET r == GetResult(students, req[p].id) IN Leave(p, r.status, r.body)
    /\ UNCHANGED <<students, session, serial, pre, creates>>

----------------------------------------------------------------------------
(* update_student *)

\* student = db.get(...); if not student: raise HTTPException(404)
update_student_get(p) ==
    /\ req[p].pc = "update_get"
    /\ LET row == DbGet(students, req[p].id)
       IN  IF row = <<>>
           THEN Leave(p, 404, <<>>)
           ELSE req' = [req EXCEPT ![p].pc = "update_commit", ![p].loaded = row]
    /\ UNCHANGED <<students, session, serial, pre, creates>>

\* The four assignments and db.commit(). Nothing changed: no UPDATE is sent.
\* Otherwise the UPDATE matches no row when the row was deleted meanwhile
\* (StaleDataError), or is refused by the unique index (IntegrityError);
\* neither is handled: 500, and the transaction is rolled back.
update_student_commit(p) ==
    /\ req[p].pc = "update_commit"
    /\ LET loaded  == req[p].loaded[1]
           payload == req[p].payload
           cur     == DbGet(students, req[p].id)
       IN  IF FieldsOf(loaded) = payload
           THEN /\ Goto(p, "update_refresh")
                /\ UNCHANGED students
           ELSE IF cur = <<>>
           THEN /\ Leave(p, 500, <<>>)
                /\ UNCHANGED students
           ELSE IF /\ payload.email # loaded.email
                   /\ UniqueViolation(students, payload.email, req[p].id)
           THEN /\ Leave(p, 500, <<>>)
                /\ UNCHANGED students
           ELSE /\ students' = (students \ {cur[1]})
                                \cup {ApplyUpdate(cur[1], loaded, payload)}
                /\ Goto(p, "update_refresh")
    /\ creates' = IF serial /\ req'[p].pc = "update_refresh" THEN -1 ELSE creates
    /\ UNCHANGED <<session, serial, pre>>

\* db.refresh(student); return student
update_student_refresh(p) ==
    /\ req[p].pc = "update_refresh"
    /\ LET row == DbGet(students, req[p].id)
       IN  IF row = <<>> THEN Leave(p, 500, <<>>) ELSE Leave(p, 200, row)
    /\ UNCHANGED <<students, session, serial, pre, creates>>

----------------------------------------------------------------------------
(* delete_student *)

\* student = db.get(...); if not student: raise HTTPException(404)
delete_student_get(p) ==
    /\ req[p].pc = "delete_get"
    /\ IF DbGet(students, req[p].id) = <<>>
       THEN Leave(p, 404, <<>>)
       ELSE Goto(p, "delete_commit")
    /\ UNCHANGED <<students, session, serial, pre, creates>>

\* db.delete(student); db.commit(); return None. A DELETE that matches no
\* row (deleted meanwhile) only warns.
delete_student_commit(p) ==
    /\ req[p].pc = "delete_commit"
    /\ students' = DeleteRow(students, req[p].id)
    /\ Leave(p, 204, <<>>)
    /\ creates' = IF serial THEN -1 ELSE creates
    /\ UNCHANGED <<session, serial, pre>>

----------------------------------------------------------------------------
(* get_db, and the end of a request *)

\* finally: db.close()
get_db_close(p) ==
    /\ req[p].pc = "finally"
    /\ session' = [session EXCEPT ![p] = SessionAtExit(req[p].status)]
    /\ Goto(p, "done")
    /\ UNCHANGED <<students, serial, pre, creates>>

\* The response has gone out; the worker is free for the next request.
respond(p) ==
    /\ req[p].pc = "done"
    /\ req' = [req EXCEPT ![p] = Idle]
    /\ session' = [session EXCEPT ![p] = IF session[p] = "closed" THEN "none"
                                         ELSE session[p]]
    /\ pre' = {}
    /\ UNCHANGED <<students, serial, creates>>

----------------------------------------------------------------------------

Next ==
    \E p \in Procs :
        \/ post_students(p)
        \/ get_students(p)
        \/ get_students_id(p)
        \/ put_students_id(p)
        \/ delete_students_id(p)
        \/ create_student_query(p)
        \/ create_student_commit(p)
        \/ create_student_refresh(p)
        \/ list_students(p)
        \/ get_student(p)
        \/ update_student_get(p)
        \/ update_student_commit(p)
        \/ update_student_refresh(p)
        \/ delete_student_get(p)
        \/ delete_student_commit(p)
        \/ get_db_close(p)
        \/ respond(p)

Init == InitWith(TRUE)
InitConc == InitWith(FALSE)

\* Requests one after the other.
Spec == Init /\ [][Next]_vars

\* Requests overlapping in any way.
ConcSpec == InitConc /\ [][Next]_vars

TypeOK ==
    /\ students \subseteq Rows
    /\ \A p \in Procs : req[p].status \in {0, 200, 201, 204, 400, 404, 422, 500}
    /\ \A p \in Procs : session[p] \in {"none", "open", "closed"}
    /\ creates \in -1 .. MaxId

----------------------------------------------------------------------------
(* Properties *)

Done(p) == req[p].pc = "done"

\* The id of the request is stored when the request arrives.
Stored(p) == req[p].id \in IdsOf(pre)

\* Another stored record holds the email the request submits.
EmailTaken(p) ==
    \E r \in pre : r.email = req[p].payload.email /\ r.id # req[p].id

\* C1: in every state reached by a sequence of requests, no two stored
\* records have the same email.
C1_UniqueEmail ==
    \A r1, r2 \in students : r1.email = r2.email => r1 = r2

\* An update that submitted the email of another record has ended, and both
\* records are stored.
C1_Witness ==
    \E p \in Procs :
        /\ Done(p) /\ req[p].op = "update" /\ Stored(p) /\ EmailTaken(p)
        /\ Cardinality(students) = 2

\* C2 as stated: a create whose email is used by a stored record ends in 400
\* and leaves the table as it was, whatever else the body holds.
C2_Original ==
    \A p \in Procs :
        (Done(p) /\ req[p].op = "create" /\ req[p].payload.email \in EmailsOf(pre))
            => (req[p].status = 400 /\ students = pre)

\* C2, amended: a create with a valid body whose email is used by a stored
\* record ends in 400 and leaves the table as it was.
C2_CreateDuplicate ==
    \A p \in Procs :
        (/\ Done(p) /\ req[p].op = "create"
         /\ StudentCreate(req[p].payload)
         /\ req[p].payload.email \in EmailsOf(pre))
            => (req[p].status = 400 /\ students = pre)

\* A create with a valid body and a stored email has ended.
C2_Witness ==
    \E p \in Procs :
        /\ Done(p) /\ req[p].op = "create"
        /\ StudentCreate(req[p].payload)
        /\ req[p].payload.email \in EmailsOf(pre)
        /\ pre # {}

\* C3: a create with a valid body whose email no stored record uses ends in
\* 201; the table gains exactly one record, with the submitted fields and an
\* id no other record has, and a get of that id, issued next, returns it.
C3_CreateNew ==
    \A p \in Procs :
        (/\ Done(p) /\ req[p].op = "create"
         /\ StudentCreate(req[p].payload)
         /\ req[p].payload.email \notin EmailsOf(pre))
            => /\ req[p].status = 201
               /\ Len(req[p].body) = 1
               /\ FieldsOf(req[p].body[1]) = req[p].payload
               /\ req[p].body[1].id \notin IdsOf(pre)
               /\ students = pre \cup {req[p].body[1]}
               /\ Cardinality(students) = Cardinality(pre) + 1
               /\ GetResult(students, req[p].body[1].id)
                      = [status |-> 200, body |-> req[p].body]

\* A create has added a record to a table that held one already.
C3_Witness ==
    \E p \in Procs :
        /\ Done(p) /\ req[p].op = "create" /\ req[p].status = 201
        /\ pre # {}
        /\ req[p].body[1] \in students

C5_Original ==
    \A p \in Procs :
        (Done(p) /\ req[p].op \in {"get", "update", "delete"} /\ ~Stored(p))
            => (req[p].status = 404 /\ students = pre)

\* C5, amended: get and delete of an id that is not stored, and update of
\* such an id with a valid body, end in 404; update with an invalid body
\* ends in 422; in each case the table is as it was.
C5_NotFound ==
    \A p \in Procs :
        (Done(p) /\ req[p].op \in {"get", "update", "delete"} /\ ~Stored(p))
            => /\ students = pre
               /\ req[p].body = <<>>
               /\ req[p].status =
                      IF req[p].op = "update" /\ ~StudentCreate(req[p].payload)
                      THEN 422 ELSE 404

\* An update with a valid body of an id that is not stored has ended, while
\* other records are stored.
C5_Witness ==
    \E p \in Procs :
        /\ Done(p) /\ req[p].op = "update" /\ ~Stored(p)
        /\ StudentCreate(req[p].payload)
        /\ pre # {}

\* C6 as stated: a request ends in success, in 422, in 404, or (create only)
\* in 400, and in nothing else.
C6_OnlyDocumentedErrors ==
    \A p \in Procs :
        Done(p) =>
            \/ req[p].status \in {200, 201, 204, 404, 422}
            \/ req[p].status = 400 /\ req[p].op = "create"

\* C7: after a delete that ended in 204 the record is gone, every other
\* record is as it was, and a get of the id, issued next, ends in 404.
C7_DeleteThenGet ==
    \A p \in Procs :
        (Done(p) /\ req[p].op = "delete" /\ req[p].status = 204)
            => /\ Stored(p)
               /\ students = {r \in pre : r.id # req[p].id}
               /\ Cardinality(students) = Cardinality(pre) - 1
               /\ GetResult(students, req[p].id) = [status |-> 404, body |-> <<>>]

\* A delete has removed one of two records.
C7_Witness ==
    \E p \in Procs :
        /\ Done(p) /\ req[p].op = "delete" /\ req[p].status = 204
        /\ Cardinality(pre) = 2

\* C8: from the empty table, after N successful creates and no other write,
\* list returns exactly N records, and a get of the id of each returns that
\* record.
C8_ListAfterCreates ==
    \A p \in Procs :
        (Done(p) /\ req[p].op = "list" /\ creates >= 0)
            => /\ req[p].status = 200
               /\ Len(req[p].body) = creates
               /\ \A i \in 1..Len(req[p].body) :
                      GetResult(students, req[p].body[i].id)
                          = [status |-> 200, body |-> <<req[p].body[i]>>]
               /\ \A i, j \in 1..Len(req[p].body) :
                      i # j => req[p].body[i] # req[p].body[j]

\* A list has ended after two creates and nothing else.
C8_Witness ==
    \E p \in Procs :
        Done(p) /\ req[p].op = "list" /\ creates = 2

\* C9: whatever the interleaving, at most one record with an email is ever
\* stored; an insert that runs when a record with its email is already
\* stored (the create passed its existence check before that record was
\* committed) is refused and leaves the table as it was.
C9_UniqueBackstop ==
    /\ [](\A r1, r2 \in students : r1.email = r2.email => r1.id = r2.id)
    /\ [][\A p \in Procs :
            (/\ req[p].pc = "create_commit"
             /\ \E r \in students : r.email = req[p].payload.email
             /\ req'[p] # req[p])
                => (students' = students /\ req'[p].status = 500)]_vars

\* Two creates with the same email overlapped: one stored its record, the
\* other passed the existence check and had its insert refused.
C9_Witness ==
    \E p, q \in Procs :
        /\ p # q
        /\ req[p].op = "create" /\ req[q].op = "create"
        /\ req[p].payload.email = req[q].payload.email
        /\ req[q].pc = "done" /\ req[q].status = 201
        /\ req[p].pc = "done" /\ req[p].status = 500
        /\ Cardinality({r \in students : r.email = req[p].payload.email}) = 1

\* C10: a request holds an open session of its own while it runs, and the
\* session is closed once the request has ended, on every exit path.
C10_SessionClosed ==
    \A p \in Procs :
        /\ req[p].pc \in {"idle", "done"} => session[p] # "open"
        /\ req[p].pc \notin {"idle", "done"} => session[p] = "open"

\* Requests have ended by a failed commit, by a raised 404 and by a normal
\* return, each with its session closed.
C10_Witness ==
    \E p, q \in Procs :
        /\ p # q
        /\ Done(p) /\ req[p].status = 500 /\ session[p] = "closed"
        /\ Done(q) /\ req[q].status \in {201, 404} /\ session[q] = "closed"

====
